---- MODULE Spec2Model ----
(***************************************************************************)
(* Model of scenedetect/video_splitter.py: the two availability probes     *)
(* (is_mkvmerge_available, is_ffmpeg_available) and the two splitters      *)
(* (split_video_mkvmerge, split_video_ffmpeg).                             *)
(*                                                                         *)
(* Text (templates, file names, scene numbers) is a sequence of            *)
(* one-character strings.  Timecodes are frame numbers.  Every call of the *)
(* command invoker is one step whose outcome (an exit code, OSError or     *)
(* CommandTooLong) is chosen nondeterministically.                         *)
(***************************************************************************)
EXTENDS Integers, Sequences, FiniteSets, TLC

VARIABLES
    pc,                   \* "idle" (not called yet), "invoke" (mkvmerge child running), "loop" (in the ffmpeg loop), "done"
    func,                 \* the function that was called ("" while idle)
    input_video_paths,    \* argument: sequence of input paths
    scene_list,           \* argument: sequence of <<start frame, end frame>>
    output_file_template, \* argument (split_video_mkvmerge reassigns it, line 165)
    suppress_output,      \* argument
    hide_progress,        \* argument (split_video_ffmpeg)
    arg_override,         \* argument (split_video_ffmpeg): a text; the list of its tokens from line 250 on
    tqdm,                 \* module global: is the progress library present
    i,                    \* 0-based loop index of split_video_ffmpeg
    ret_val,              \* local ret_val of the splitters
    progress_bar,         \* [active, total, n]: the tqdm object, active = FALSE is None
    calls,                \* argument vectors handed to the command invoker, in order
    outcomes,             \* what each of those invocations did, in order
    log,                  \* logging records, in order
    outcome,              \* "pending", "None", "int" (ret_val returned), "bool", or the exception raised
    return_bool,          \* value returned by a probe when outcome = "bool"
    now,                  \* wall clock, time.time(), in ticks
    processing_start_time, \* local of the splitters (lines 184, 264)
    total_scenes,         \* scene-number rendering: len(scene_list)
    scene_number,         \* scene-number rendering: last number rendered (i + 1)
    rendered,             \* scene-number rendering: text of scene_number
    rendered_prev         \* scene-number rendering: text of scene_number - 1

vars == << pc, func, input_video_paths, scene_list, output_file_template,
           suppress_output, hide_progress, arg_override, tqdm, i, ret_val, progress_bar,
           calls, outcomes, log, outcome, return_bool,
           now, processing_start_time,
           total_scenes, scene_number, rendered, rendered_prev >>

----------------------------------------------------------------------------
(* Bounds *)

MaxInputs == 2
MaxScenes == 3
MaxFrame == 4
MaxExitCode == 2
MaxSignal == 1
MaxFragments == 3
MaxTotalScenes == 1200
MaxTick == 2

----------------------------------------------------------------------------
(* Text helpers *)

Drop(s, n) == SubSeq(s, n + 1, Len(s))

IsPrefix(p, s) == Len(p) <= Len(s) /\ SubSeq(s, 1, Len(p)) = p

Contains(s, p) == \E k \in 0..(Len(s) - Len(p)) : SubSeq(s, k + 1, k + Len(p)) = p

RECURSIVE LexLess(_, _)
LexLess(a, b) ==
    IF b = << >> THEN FALSE
    ELSE IF a = << >> THEN TRUE
    ELSE IF a[1] = b[1] THEN LexLess(Tail(a), Tail(b))
    ELSE \* only digits are compared: order of the digit characters
         LET Ord(c) == CHOOSE d \in 0..9 :
                 c = <<"0","1","2","3","4","5","6","7","8","9">>[d + 1]
         IN Ord(a[1]) < Ord(b[1])

SCENE_NUMBER_KEY == <<"S","C","E","N","E","_","N","U","M","B","E","R">>
VIDEO_NAME_KEY == <<"V","I","D","E","O","_","N","A","M","E">>
DollarSceneNumber == <<"$">> \o SCENE_NUMBER_KEY
HyphenDollarSceneNumber == <<"-">> \o DollarSceneNumber
DollarVideoName == <<"$">> \o VIDEO_NAME_KEY

\* str.replace(old, ''): remove the leftmost non-overlapping occurrences of old.
RECURSIVE StrRemove(_, _)
StrRemove(s, old) ==
    IF Len(s) < Len(old) THEN s
    ELSE IF IsPrefix(old, s) THEN StrRemove(Drop(s, Len(old)), old)
    ELSE <<s[1]>> \o StrRemove(Tail(s), old)

\* Lines 165-166: .replace('-$SCENE_NUMBER', '').replace('$SCENE_NUMBER', '')
StripSceneNumber(template) ==
    StrRemove(StrRemove(template, HyphenDollarSceneNumber), DollarSceneNumber)

\* Line 247: arg_override.replace('\\"', '"'), every backslash-quote pair
\* from the left becomes a quote.
RECURSIVE UnescapeQuotes(_)
UnescapeQuotes(s) ==
    IF Len(s) < 2 THEN s
    ELSE IF s[1] = "\\" /\ s[2] = "\""
      THEN <<"\"">> \o UnescapeQuotes(Drop(s, 2))
    ELSE <<s[1]>> \o UnescapeQuotes(Tail(s))

\* Line 250: str.split(' ') cuts at every single space; two spaces in a
\* row, a leading or a trailing space and the empty text give empty tokens.
RECURSIVE SplitSpaces(_, _)
SplitSpaces(s, token) ==
    IF s = << >> THEN << token >>
    ELSE IF s[1] = " " THEN << token >> \o SplitSpaces(Tail(s), << >>)
    ELSE SplitSpaces(Tail(s), Append(token, s[1]))

\* Lines 247 and 250: arg_override is rebound to the list of its tokens
ArgOverrideTokens(text) == SplitSpaces(UnescapeQuotes(text), << >>)

UpperLetters ==
    {"A","B","C","D","E","F","G","H","I","J","K","L","M",
     "N","O","P","Q","R","S","T","U","V","W","X","Y","Z"}
LowerLetters ==
    {"a","b","c","d","e","f","g","h","i","j","k","l","m",
     "n","o","p","q","r","s","t","u","v","w","x","y","z"}
DigitChars == {"0","1","2","3","4","5","6","7","8","9"}

\* string.Template identifiers: [_a-z][_a-z0-9]* with re.IGNORECASE
IsIdStart(c) == c \in UpperLetters \cup LowerLetters \cup {"_"}
IsIdChar(c) == IsIdStart(c) \/ c \in DigitChars

\* Length of the longest run of identifier characters of s starting at position k.
RECURSIVE IdRun(_, _)
IdRun(s, k) ==
    IF k <= Len(s) /\ IsIdChar(s[k]) THEN 1 + IdRun(s, k + 1) ELSE 0

\* Template(t).safe_substitute(**mapping); mapping is a function from
\* identifiers to texts.  Unknown and malformed placeholders are left intact.
RECURSIVE SafeSubstitute(_, _)
SafeSubstitute(s, mapping) ==
    IF s = << >> THEN << >>
    ELSE IF s[1] # "$" THEN <<s[1]>> \o SafeSubstitute(Tail(s), mapping)
    ELSE IF Len(s) >= 2 /\ s[2] = "$"
      THEN <<"$">> \o SafeSubstitute(Drop(s, 2), mapping)
    ELSE IF Len(s) >= 2 /\ IsIdStart(s[2])
      THEN LET n == IdRun(s, 2)
               name == SubSeq(s, 2, n + 1)
               match == SubSeq(s, 1, n + 1)
           IN (IF name \in DOMAIN mapping THEN mapping[name] ELSE match)
              \o SafeSubstitute(Drop(s, n + 1), mapping)
    ELSE IF Len(s) >= 4 /\ s[2] = "{" /\ IsIdStart(s[3])
            /\ IdRun(s, 3) + 3 <= Len(s) /\ s[IdRun(s, 3) + 3] = "}"
      THEN LET n == IdRun(s, 3)
               name == SubSeq(s, 3, n + 2)
               match == SubSeq(s, 1, n + 3)
           IN (IF name \in DOMAIN mapping THEN mapping[name] ELSE match)
              \o SafeSubstitute(Drop(s, n + 3), mapping)
    ELSE <<"$">> \o SafeSubstitute(Tail(s), mapping)

----------------------------------------------------------------------------
(* Scene-number rendering, lines 252-253 and 289 *)

RECURSIVE DecimalText(_)
DecimalText(n) ==
    IF n < 10 THEN << <<"0","1","2","3","4","5","6","7","8","9">>[n + 1] >>
    ELSE DecimalText(n \div 10)
         \o << <<"0","1","2","3","4","5","6","7","8","9">>[(n % 10) + 1] >>

NumDigits(n) == Len(DecimalText(n))

RECURSIVE Zeros(_)
Zeros(n) == IF n <= 0 THEN << >> ELSE <<"0">> \o Zeros(n - 1)

\* '%0<width>d' % n for n >= 0: left-pad with zeros, never truncate
ZeroPad(n, width) == Zeros(width - NumDigits(n)) \o DecimalText(n)

\* The arguments n <= 2000000 for which the double-precision quotient
\* math.log(n, 10) = log(n) / log(10) falls just below the exact integer
\* logarithm: math.log(1000, 10) = 2.9999999999999996 and
\* math.log(1000000, 10) = 5.999999999999999.
FloatLogBelowInteger == {1000, 1000000}

\* math.floor(math.log(n, 10)), line 253, for 1 <= n <= 2000000
FloorLog10(n) ==
    IF n \in FloatLogBelowInteger THEN NumDigits(n) - 2 ELSE NumDigits(n) - 1

Max(a, b) == IF a >= b THEN a ELSE b

\* Line 253: max(3, math.floor(math.log(len(scene_list), 10)) + 1)
SceneNumWidth(n) == Max(3, FloorLog10(n) + 1)

\* Line 289: scene_num_format % (i + 1)
SceneNumberText(idx, n) == ZeroPad(idx, SceneNumWidth(n))

----------------------------------------------------------------------------
(* Inputs *)

\* Line 201: the default of arg_override
DefaultArgOverride ==
    <<"-","c",":","v"," ","l","i","b","x","2","6","4"," ","-","p">> \o
    <<"r","e","s","e","t"," ","f","a","s","t"," ","-","c","r","f">> \o
    <<" ","2","1"," ","-","c",":","a"," ","a","a","c">>

VideoName == <<"c","l","i","p">>

\* Input path lists of 0..MaxInputs paths; a path is identified by its position.
InputLists == { [k \in 1..n |-> k] : n \in 0..MaxInputs }

Intervals == { <<s, e>> : s \in 0..MaxFrame, e \in 0..MaxFrame }

\* Scene lists as the detection stage delivers them: start < end in every
\* scene, scenes ascending and non-overlapping (gaps are allowed).
IsSceneList(sl) ==
    /\ \A k \in 1..Len(sl) : sl[k][1] < sl[k][2]
    /\ \A k \in 1..(Len(sl) - 1) : sl[k][2] <= sl[k + 1][1]

SceneLists ==
    UNION { { sl \in [1..n -> Intervals] : IsSceneList(sl) } : n \in 0..MaxScenes }

MainTemplates ==
    { DollarVideoName \o HyphenDollarSceneNumber,
      DollarVideoName \o DollarSceneNumber,
      DollarVideoName }

Fragments ==
    { DollarVideoName, DollarSceneNumber, <<"-">>, <<"x">>,
      <<"$","S","C","E","N","E","_">>, <<"N","U","M","B","E","R">> }

RECURSIVE FragmentTexts(_)
FragmentTexts(n) ==
    IF n = 0 THEN { << >> }
    ELSE LET shorter == FragmentTexts(n - 1)
         IN shorter \cup { t \o f : t \in shorter, f \in Fragments }

\* Templates made of at most MaxFragments fragments.
StripTemplates == FragmentTexts(MaxFragments)

----------------------------------------------------------------------------
(* Launching a child process *)

ExitCodes == (0 - MaxSignal)..MaxExitCode

Exited(c) == [kind |-> "exit", code |-> c]
Raised(e) == [kind |-> e, code |-> 0]

\* subprocess.call (lines 105, 122): the child's exit code, or OSError when
\* the executable cannot be launched.
SubprocessOutcomes == { Exited(c) : c \in ExitCodes } \cup { Raised("OSError") }

\* scenedetect.platform.invoke_command: the child's exit code, OSError when
\* the program cannot be launched, CommandTooLong when the platform rejects
\* the argument vector.
InvokeOutcomes ==
    { Exited(c) : c \in ExitCodes } \cup { Raised("OSError"), Raised("CommandTooLong") }

\* A logging record: level, format string, its integer argument (for a rate:
\* the dividend num and the divisor per), its text argument.
LogRec(level, msg, num, text) ==
    [level |-> level, msg |-> msg, num |-> num, per |-> 0, text |-> text]

\* How long a child process runs, in ticks of the wall clock: always some time.
Ticks == 1..MaxTick

\* An argument vector.  ffmpeg (lines 266-290): the program, flags (the
\* verbosity choice), '-y', '-ss' ss, '-i' inputs[1], '-t' t, the tokens of
\* override, '-sn', out.  mkvmerge (lines 171-182): the program, flags,
\* '-o' out, '--split' parts, inputs.  opts are the options the function
\* puts in every invocation.
CallRec(prog, flags, opts, out, parts, inputs, ss, t, override) ==
    [prog |-> prog, flags |-> flags, opts |-> opts, out |-> out, parts |-> parts,
     inputs |-> inputs, ss |-> ss, t |-> t, override |-> override]

----------------------------------------------------------------------------
(* Availability probes, lines 96-127 *)

MKVMERGE_USAGE_CODE == 2
FFMPEG_USAGE_CODE == 1

ProbeResult(kind, val) == [outcome |-> kind, val |-> val]

\* The probe with the comparison inverted: any code but 2 counts as available.
IsMkvmergeAvailable_Inverted(o) ==
    IF o.kind = "OSError" THEN ProbeResult("bool", FALSE)
    ELSE IF o.code # MKVMERGE_USAGE_CODE THEN ProbeResult("bool", TRUE)
    ELSE ProbeResult("bool", FALSE)

\* The probe without its except clause: OSError propagates.
IsMkvmergeAvailable_NoExcept(o) ==
    IF o.kind = "OSError" THEN ProbeResult("OSError", FALSE)
    ELSE IF o.code # MKVMERGE_USAGE_CODE THEN ProbeResult("bool", FALSE)
    ELSE ProbeResult("bool", TRUE)

\* Lines 103-110: what is_mkvmerge_available does with the outcome o of
\* subprocess.call(['mkvmerge', '--quiet']).
IsMkvmergeAvailableResult(o) ==
    IF o.kind = "OSError" THEN ProbeResult("bool", FALSE)
    ELSE IF o.code # MKVMERGE_USAGE_CODE THEN ProbeResult("bool", FALSE)
    ELSE ProbeResult("bool", TRUE)

\* Lines 120-127: what is_ffmpeg_available does with the outcome o of
\* subprocess.call(['ffmpeg', '-v', 'quiet']).
IsFfmpegAvailableResult(o) ==
    IF o.kind = "OSError" THEN ProbeResult("bool", FALSE)
    ELSE IF o.code # FFMPEG_USAGE_CODE THEN ProbeResult("bool", FALSE)
    ELSE ProbeResult("bool", TRUE)

UnchangedArgs ==
    UNCHANGED << input_video_paths, scene_list, suppress_output, hide_progress, tqdm >>

UnchangedRendering ==
    UNCHANGED << total_scenes, scene_number, rendered, rendered_prev >>

is_mkvmerge_available ==
    /\ pc = "idle"
    /\ UNCHANGED arg_override
    /\ func' = "is_mkvmerge_available"
    /\ \E o \in SubprocessOutcomes :
          /\ calls' = Append(calls, CallRec("mkvmerge", <<"--quiet">>, << >>,
                                            << >>, << >>, << >>, 0, 0, << >>))
          /\ outcomes' = Append(outcomes, o)
          /\ outcome' = IsMkvmergeAvailableResult(o).outcome
          /\ return_bool' = IsMkvmergeAvailableResult(o).val
    /\ pc' = "done"
    /\ UNCHANGED << output_file_template, i, ret_val, progress_bar, log,
                    now, processing_start_time >>
    /\ UnchangedArgs
    /\ UnchangedRendering

is_ffmpeg_available ==
    /\ pc = "idle"
    /\ UNCHANGED arg_override
    /\ func' = "is_ffmpeg_available"
    /\ \E o \in SubprocessOutcomes :
          /\ calls' = Append(calls, CallRec("ffmpeg", <<"-v", "quiet">>, << >>,
                                            << >>, << >>, << >>, 0, 0, << >>))
          /\ outcomes' = Append(outcomes, o)
          /\ outcome' = IsFfmpegAvailableResult(o).outcome
          /\ return_bool' = IsFfmpegAvailableResult(o).val
    /\ pc' = "done"
    /\ UNCHANGED << output_file_template, i, ret_val, progress_bar, log,
                    now, processing_start_time >>
    /\ UnchangedArgs
    /\ UnchangedRendering

----------------------------------------------------------------------------
(* Pieces shared by the two splitters *)

\* Line 157 with the input-list test forgotten.
MkvmergeNothingToDo_ScenesOnly(paths, scenes) == scenes = << >>

\* Line 157: not input_video_paths or not scene_list
MkvmergeNothingToDo(paths, scenes) == paths = << >> \/ scenes = << >>

\* Line 226: not input_video_paths or not scene_list
FfmpegNothingToDo(paths, scenes) == paths = << >> \/ scenes = << >>

\* Line 233 with the limit off by one.
MultipleInputs_OffByOne(paths) == Len(paths) > 2

\* Line 233: len(input_video_paths) > 1
MultipleInputs(paths) == Len(paths) > 1

\* Lines 183 and 257: scene_list[-1][1].get_frames() - scene_list[0][0].get_frames()
TotalFrames(scenes) == scenes[Len(scenes)][2] - scenes[1][1]

SplittingInfo(prog, paths, template) ==
    LogRec("info", "Splitting input video using " \o prog, Len(paths), template)

\* Lines 188-189 and 302-303: float(total_frames) / (time.time() - processing_start_time)
AverageSpeedInfo(frames, elapsed) ==
    [LogRec("info", "Average processing speed %.2f frames/sec.", frames, << >>)
        EXCEPT !.per = elapsed]

CommandTooLongError == LogRec("error", "COMMAND_TOO_LONG_STRING", 0, << >>)

ToolNotFoundError(prog) ==
    LogRec("error", prog \o " could not be found on the system. Please install "
                    \o prog, 0, << >>)

ReturnedError(prog, code) ==
    LogRec("error", "Error splitting video (" \o prog \o " returned %d).", code, << >>)

\* Lines 190-194 with the except clauses swapped and CommandTooLong caught
\* by the OSError clause.
MkvmergeExceptLog_Swapped(kind) == ToolNotFoundError("mkvmerge")

\* Lines 190-194 with one clause, except (CommandTooLong, OSError), logging the
\* too-long message.
MkvmergeExceptLog_AlwaysTooLong(kind) == CommandTooLongError

\* Lines 190-194: the except clauses of split_video_mkvmerge
MkvmergeExceptLog(kind) ==
    IF kind = "CommandTooLong" THEN CommandTooLongError
    ELSE ToolNotFoundError("mkvmerge")

\* Lines 305-309: the except clauses of split_video_ffmpeg
FfmpegExceptLog(kind) ==
    IF kind = "CommandTooLong" THEN CommandTooLongError
    ELSE ToolNotFoundError("ffmpeg")

----------------------------------------------------------------------------
(* split_video_mkvmerge, lines 134-197: the entry up to the launch of the   *)
(* child process is one step, the invocation and what follows is another.  *)

\* Lines 179-181 with every part but the last ending at the next scene's start.
MkvmergeParts_NextStart(scenes) ==
    [k \in 1..Len(scenes) |->
        <<scenes[k][1], IF k < Len(scenes) THEN scenes[k + 1][1] ELSE scenes[k][2]>>]

\* Lines 179-181: one start-end pair per scene
MkvmergeParts(scenes) ==
    [k \in 1..Len(scenes) |-> <<scenes[k][1], scenes[k][2]>>]

\* Lines 163 and 185 with the assignment of the exit code forgotten.
MkvmergeRetVal_Unassigned(o) == 0

\* Lines 163 and 185: ret_val = 0, then ret_val = invoke_command(call_list)
\* unless the invoker raises.
MkvmergeRetVal(o) == IF o.kind = "exit" THEN o.code ELSE 0

\* Lines 167-168
MkvmergeOutputName(stripped) ==
    SafeSubstitute(stripped, VIDEO_NAME_KEY :> VideoName)

\* Lines 157-184: the call up to the launch of the child process.
split_video_mkvmerge ==
    /\ pc = "idle"
    /\ UNCHANGED arg_override
    /\ func' = "split_video_mkvmerge"
    /\ UNCHANGED << i, progress_bar, return_bool, calls, outcomes, now >>
    /\ UnchangedArgs
    /\ UnchangedRendering
    /\ IF MkvmergeNothingToDo(input_video_paths, scene_list)
       THEN /\ outcome' = "None"
            /\ pc' = "done"
            /\ UNCHANGED << output_file_template, ret_val, log, processing_start_time >>
       ELSE /\ log' = Append(log, SplittingInfo("mkvmerge", input_video_paths,
                                                output_file_template))
            /\ ret_val' = 0
            /\ output_file_template' = StripSceneNumber(output_file_template)
            /\ processing_start_time' = now
            /\ outcome' = "pending"
            /\ pc' = "invoke"

\* Lines 171-182 and 185-197: invoke_command(call_list) waits for the child
\* process; the step is its return or its exception, with everything that
\* follows up to the return of the call.
mkvmerge_invoke ==
    /\ pc = "invoke"
    /\ UNCHANGED arg_override
    /\ UNCHANGED << func, output_file_template, i, progress_bar, return_bool,
                    processing_start_time >>
    /\ UnchangedArgs
    /\ UnchangedRendering
    /\ \E o \in InvokeOutcomes, d \in Ticks :
       LET call_list == CallRec("mkvmerge",
                            IF suppress_output THEN <<"--quiet">> ELSE << >>,
                            <<"-o", "--split">>,
                            MkvmergeOutputName(output_file_template),
                            MkvmergeParts(scene_list),
                            input_video_paths, 0, 0, << >>)
           rv == MkvmergeRetVal(o)
           after_invoke ==
               IF o.kind = "exit"
               THEN IF ~suppress_output
                    THEN << AverageSpeedInfo(TotalFrames(scene_list),
                                             (now + d) - processing_start_time) >>
                    ELSE << >>
               ELSE << MkvmergeExceptLog(o.kind) >>
           after_try ==
               IF rv # 0 THEN << ReturnedError("mkvmerge", rv) >> ELSE << >>
       IN /\ now' = now + d
          /\ calls' = Append(calls, call_list)
          /\ outcomes' = Append(outcomes, o)
          /\ ret_val' = rv
          /\ log' = log \o after_invoke \o after_try
          /\ outcome' = "int"
          /\ pc' = "done"

----------------------------------------------------------------------------
(* split_video_ffmpeg, lines 200-310: the entry up to the loop is one     *)
(* step, every loop iteration (one child process) is one step; the step    *)
(* that leaves the loop also runs lines 300-310.                           *)

\* Line 295 with the break forgotten.
FfmpegStops_Never(code) == FALSE

\* Line 295: ret_val != 0 ends the loop
FfmpegStops(code) == code # 0

\* Lines 268-274 with the test i > 0 written i >= 0.
FfmpegVerbosity_ErrorFromFirst(suppress, idx) ==
    IF suppress THEN <<"-v", "quiet">>
    ELSE IF idx >= 0 THEN <<"-v", "error">>
    ELSE << >>

\* Lines 268-274
FfmpegVerbosity(suppress, idx) ==
    IF suppress THEN <<"-v", "quiet">>
    ELSE IF idx > 0 THEN <<"-v", "error">>
    ELSE << >>

\* Line 292 with the test i == 0 forgotten.
FfmpegShowsNotice_EveryScene(suppress, idx, n) == ~suppress /\ n > 1

\* Line 292: not suppress_output and i == 0 and len(scene_list) > 1
FfmpegShowsNotice(suppress, idx, n) == ~suppress /\ idx = 0 /\ n > 1

\* Lines 298-299 with update() called without its argument (it then adds 1).
ProgressUpdate_ByOne(pb, frames) ==
    IF pb.active THEN [pb EXCEPT !.n = @ + 1] ELSE pb

\* Lines 298-299: if progress_bar: progress_bar.update(duration.get_frames())
ProgressUpdate(pb, frames) ==
    IF pb.active THEN [pb EXCEPT !.n = @ + frames] ELSE pb

\* Line 300 with the test of the progress bar forgotten.
FfmpegReportsSpeed_Always(pb) == TRUE

\* Line 300: if progress_bar
FfmpegReportsSpeed(pb) == pb.active

\* Line 265 with the loop ending one scene early.
FfmpegHasNext_StopsEarly(idx, n) == idx + 2 < n

\* Line 265: enumerate(scene_list) has a scene after index idx
FfmpegHasNext(idx, n) == idx + 1 < n

\* Line 265 with the loop never leaving its scene (a retry loop).
FfmpegNextIndex_Stay(idx) == idx

\* Line 265: enumerate(scene_list) moves to the next scene
FfmpegNextIndex(idx) == idx + 1

\* Lines 285-290 with the scene number i in place of i + 1.
FfmpegOutputName_ZeroBased(template, idx, n) ==
    SafeSubstitute(template,
        (VIDEO_NAME_KEY :> VideoName) @@ (SCENE_NUMBER_KEY :> SceneNumberText(idx, n)))

\* Lines 285-290
FfmpegOutputName(template, idx, n) ==
    SafeSubstitute(template,
        (VIDEO_NAME_KEY :> VideoName) @@ (SCENE_NUMBER_KEY :> SceneNumberText(idx + 1, n)))

split_video_ffmpeg ==
    /\ pc = "idle"
    /\ func' = "split_video_ffmpeg"
    /\ UNCHANGED << output_file_template, calls, outcomes, return_bool, now >>
    /\ UnchangedArgs
    /\ UnchangedRendering
    /\ IF FfmpegNothingToDo(input_video_paths, scene_list)
       THEN /\ outcome' = "None"
            /\ pc' = "done"
            /\ UNCHANGED << i, ret_val, progress_bar, log, processing_start_time,
                            arg_override >>
       ELSE IF MultipleInputs(input_video_paths)
       THEN /\ log' = log \o << SplittingInfo("ffmpeg", input_video_paths,
                                              output_file_template),
                                LogRec("error", "multiple inputs not supported", 0, << >>) >>
            /\ outcome' = "NotImplementedError"
            /\ pc' = "done"
            /\ UNCHANGED << i, ret_val, progress_bar, processing_start_time,
                            arg_override >>
       ELSE /\ log' = log \o << SplittingInfo("ffmpeg", input_video_paths,
                                              output_file_template) >>
            /\ arg_override' = ArgOverrideTokens(arg_override)
            /\ ret_val' = 0
            /\ progress_bar' = [active |-> tqdm /\ ~hide_progress,
                                total |-> TotalFrames(scene_list), n |-> 0]
            /\ processing_start_time' = now
            /\ i' = 0
            /\ outcome' = "pending"
            /\ pc' = "loop"

ffmpeg_scene ==
    /\ pc = "loop"
    /\ UNCHANGED arg_override
    /\ UNCHANGED << func, output_file_template, return_bool, processing_start_time >>
    /\ UnchangedArgs
    /\ UnchangedRendering
    /\ \E o \in InvokeOutcomes, d \in Ticks :
       LET start_time == scene_list[i + 1][1]
           end_time == scene_list[i + 1][2]
           duration == end_time - start_time
           call_list == CallRec("ffmpeg", FfmpegVerbosity(suppress_output, i),
                            <<"-y", "-ss", "-i", "-t", "-sn">>,
                            FfmpegOutputName(output_file_template, i, Len(scene_list)),
                            << >>, << input_video_paths[1] >>, start_time, duration,
                            arg_override)
           notice ==
               IF FfmpegShowsNotice(suppress_output, i, Len(scene_list))
               THEN << LogRec("info", "Output from ffmpeg for Scene 1 shown above", 0, << >>) >>
               ELSE << >>
           speed ==
               IF FfmpegReportsSpeed(progress_bar)
               THEN << AverageSpeedInfo(TotalFrames(scene_list),
                                        (now + d) - processing_start_time) >>
               ELSE << >>
       IN /\ calls' = Append(calls, call_list)
          /\ now' = now + d
          /\ outcomes' = Append(outcomes, o)
          /\ IF o.kind # "exit"
             THEN \* lines 305-310
                  /\ log' = Append(log, FfmpegExceptLog(o.kind))
                  /\ outcome' = "int"
                  /\ pc' = "done"
                  /\ UNCHANGED << i, ret_val, progress_bar >>
             ELSE IF FfmpegStops(o.code)
             THEN \* lines 295-297, 300-303, 310
                  /\ ret_val' = o.code
                  /\ log' = log \o notice \o << ReturnedError("ffmpeg", o.code) >> \o speed
                  /\ outcome' = "int"
                  /\ pc' = "done"
                  /\ UNCHANGED << i, progress_bar >>
             ELSE /\ ret_val' = o.code
                  /\ progress_bar' = ProgressUpdate(progress_bar, duration)
                  /\ IF FfmpegHasNext(i, Len(scene_list))
                     THEN /\ i' = FfmpegNextIndex(i)
                          /\ log' = log \o notice
                          /\ UNCHANGED << outcome, pc >>
                     ELSE \* loop exhausted: lines 300-303, 310
                          /\ log' = log \o notice \o speed
                          /\ outcome' = "int"
                          /\ pc' = "done"
                          /\ UNCHANGED i

----------------------------------------------------------------------------
(* Scene-number rendering over long scene lists: the numbers 1..n that the *)
(* loop of split_video_ffmpeg renders for a list of n scenes (line 289).   *)

render_scene_number ==
    /\ scene_number < total_scenes
    /\ scene_number' = scene_number + 1
    /\ rendered' = SceneNumberText(scene_number + 1, total_scenes)
    /\ rendered_prev' = rendered
    /\ UNCHANGED << pc, func, input_video_paths, scene_list, output_file_template,
                    suppress_output, hide_progress, arg_override, tqdm, i, ret_val,
                    progress_bar, calls, outcomes, log, outcome, return_bool, total_scenes,
                    now, processing_start_time >>

----------------------------------------------------------------------------
(* Specifications *)

InitCall ==
    /\ pc = "idle"
    /\ func = ""
    /\ i = 0
    /\ ret_val = 0
    /\ progress_bar = [active |-> FALSE, total |-> 0, n |-> 0]
    /\ calls = << >>
    /\ outcomes = << >>
    /\ log = << >>
    /\ outcome = "pending"
    /\ return_bool = FALSE
    /\ now = 0
    /\ processing_start_time = 0

InitNoRendering ==
    /\ total_scenes = 0
    /\ scene_number = 0
    /\ rendered = << >>
    /\ rendered_prev = << >>

\* Any call of the four functions with any arguments within the bounds.
Init ==
    /\ InitCall
    /\ InitNoRendering
    /\ input_video_paths \in InputLists
    /\ scene_list \in SceneLists
    /\ output_file_template \in MainTemplates
    /\ suppress_output \in BOOLEAN
    /\ hide_progress \in BOOLEAN
    /\ tqdm \in BOOLEAN
    /\ arg_override = DefaultArgOverride

Next ==
    \/ is_mkvmerge_available
    \/ is_ffmpeg_available
    \/ split_video_mkvmerge
    \/ mkvmerge_invoke
    \/ split_video_ffmpeg
    \/ ffmpeg_scene

Spec == Init /\ [][Next]_vars

\* Every child process eventually exits, and invoke_command blocks until it
\* has: the invocation of split_video_mkvmerge and an iteration of the
\* ffmpeg loop that has begun are completed.
\* The calls are those of Spec with the arguments that no branch deciding
\* the course of a call reads (template, suppress_output, hide_progress,
\* tqdm) fixed, and with the scene lists of a whole video: the first scene
\* starts at frame 0 and each scene starts where the previous one ends.
InitFair ==
    /\ InitCall
    /\ InitNoRendering
    /\ input_video_paths \in InputLists
    /\ scene_list \in SceneLists
    /\ \A k \in 1..(Len(scene_list) - 1) : scene_list[k][2] = scene_list[k + 1][1]
    /\ scene_list # << >> => scene_list[1][1] = 0
    /\ output_file_template = DollarVideoName \o HyphenDollarSceneNumber
    /\ suppress_output = FALSE
    /\ hide_progress = FALSE
    /\ tqdm = TRUE
    /\ arg_override = DefaultArgOverride

SpecFair ==
    InitFair /\ [][Next]_vars /\ WF_vars(mkvmerge_invoke) /\ WF_vars(ffmpeg_scene)

\* split_video_mkvmerge on one input and one scene, over many templates.
InitStrip ==
    /\ InitCall
    /\ InitNoRendering
    /\ input_video_paths = << 1 >>
    /\ scene_list = << <<0, 1>> >>
    /\ output_file_template \in StripTemplates
    /\ suppress_output \in BOOLEAN
    /\ hide_progress = FALSE
    /\ tqdm = FALSE
    /\ arg_override = DefaultArgOverride

NextStrip ==
    \/ split_video_mkvmerge
    \/ mkvmerge_invoke

SpecStrip == InitStrip /\ [][NextStrip]_vars

\* The scene numbers of scene lists of 1..MaxTotalScenes scenes.
InitRender ==
    /\ InitCall
    /\ input_video_paths = << 1 >>
    /\ scene_list = << >>
    /\ output_file_template = DollarSceneNumber
    /\ suppress_output = FALSE
    /\ hide_progress = FALSE
    /\ tqdm = FALSE
    /\ arg_override = DefaultArgOverride
    /\ total_scenes \in 1..MaxTotalScenes
    /\ scene_number = 0
    /\ rendered = << >>
    /\ rendered_prev = << >>

NextRender == render_scene_number

SpecRender == InitRender /\ [][NextRender]_vars

----------------------------------------------------------------------------
(* Properties *)

Splitters == {"split_video_mkvmerge", "split_video_ffmpeg"}
Probes == {"is_mkvmerge_available", "is_ffmpeg_available"}

IsNonzeroExit(o) == o.kind = "exit" /\ o.code # 0

\* The invocation calls[j] of split_video_ffmpeg is the one for scene j.
IsCallForScene(j) ==
    /\ calls[j].prog = "ffmpeg"
    /\ calls[j].ss = scene_list[j][1]
    /\ calls[j].t = scene_list[j][2] - scene_list[j][1]

ErrorRecords == { log[m] : m \in { n \in 1..Len(log) : log[n].level = "error" } }

ProgOf(f) == IF f = "split_video_mkvmerge" THEN "mkvmerge" ELSE "ffmpeg"

\* C1 (state part): in split_video_ffmpeg on one input, when scene k is the
\* first whose invocation returns a nonzero exit code, exactly k invocations
\* were made, for scenes 1..k in order, the call has ended, and it returned
\* that exit code.
C1_FailFastState ==
    (func = "split_video_ffmpeg" /\ Len(input_video_paths) = 1) =>
        /\ Len(calls) = Len(outcomes)
        /\ \A j \in 1..Len(calls) : IsCallForScene(j)
        /\ \A k \in 1..Len(outcomes) :
              (IsNonzeroExit(outcomes[k])
                 /\ \A j \in 1..(k - 1) : ~IsNonzeroExit(outcomes[j])) =>
                  /\ Len(calls) = k
                  /\ pc = "done"
                  /\ outcome = "int"
                  /\ ret_val = outcomes[k].code

\* C1 (step part): invocations already made are never taken back, and after
\* a nonzero exit code no invocation is added.
C1_FailFastStep ==
    func = "split_video_ffmpeg" =>
        /\ IsPrefix(calls, calls')
        /\ (\E k \in 1..Len(outcomes) : IsNonzeroExit(outcomes[k])) => calls' = calls

\* C1: split_video_ffmpeg fails fast: with scene k the first to return a
\* nonzero exit code, exactly the scenes 1..k are invoked, in order, none of
\* k+1..n ever is, the exit code of scene k is returned and the earlier
\* invocations stay as they were.
C1_FailFast == [](C1_FailFastState) /\ [][C1_FailFastStep]_vars

C1_Witness ==
    /\ func = "split_video_ffmpeg"
    /\ Len(scene_list) = 3
    /\ Len(outcomes) = 2
    /\ outcomes[1] = Exited(0)
    /\ IsNonzeroExit(outcomes[2])
    /\ Len(calls) = 2
    /\ pc = "done"
    /\ ret_val = outcomes[2].code

RequiredInvocations ==
    IF func = "split_video_mkvmerge" THEN 1 ELSE Len(scene_list)

\* C2: a splitter that returns 0 has launched every invocation the call
\* required (one for mkvmerge, one per scene for ffmpeg) and each exited with
\* code 0.
C2_ZeroMeansSuccess ==
    (func \in Splitters /\ pc = "done" /\ outcome = "int" /\ ret_val = 0) =>
        /\ Len(outcomes) = RequiredInvocations
        /\ \A k \in 1..Len(outcomes) : outcomes[k] = Exited(0)

\* C3: a splitter returns None exactly when the input list or the scene list
\* is empty, and then it has spawned no child and logged nothing; with both
\* lists non-empty it never returns None.
C3_NoOpIffEmpty ==
    (func \in Splitters /\ pc = "done") =>
        /\ (outcome = "None") <=> (input_video_paths = << >> \/ scene_list = << >>)
        /\ (outcome = "None") => (calls = << >> /\ log = << >>)

C3_Witness ==
    /\ func = "split_video_ffmpeg"
    /\ pc = "done"
    /\ Len(input_video_paths) = 2
    /\ scene_list = << >>
    /\ outcome = "None"
    /\ calls = << >>

\* C4: split_video_ffmpeg with more than one input and a non-empty scene
\* list raises NotImplementedError in its first step, before any invocation.
C4_MultipleInputsUnsupported ==
    (func = "split_video_ffmpeg" /\ Len(input_video_paths) > 1 /\ scene_list # << >>) =>
        /\ pc = "done"
        /\ outcome = "NotImplementedError"
        /\ calls = << >>
        /\ outcomes = << >>

C4_Witness ==
    /\ func = "split_video_ffmpeg"
    /\ Len(input_video_paths) = 2
    /\ Len(scene_list) = 3
    /\ suppress_output
    /\ outcome = "NotImplementedError"
    /\ calls = << >>

HasOutcome(kind) == \E k \in 1..Len(outcomes) : outcomes[k].kind = kind

\* The state a splitter is in after invocation k raised: that invocation was
\* the last one, the call has returned ret_val without raising, and the only
\* error logged is err.
EndedByException(k, err) ==
    /\ k = Len(outcomes)
    /\ Len(calls) = k
    /\ pc = "done"
    /\ outcome = "int"
    /\ ErrorRecords = { err }

\* C5: when an invocation of a splitter raises CommandTooLong, the splitter
\* logs COMMAND_TOO_LONG_STRING and no other error, makes no further
\* invocation and returns without raising.
C5_CommandTooLong ==
    /\ [](func \in Splitters =>
            \A k \in 1..Len(outcomes) :
                outcomes[k].kind = "CommandTooLong" =>
                    EndedByException(k, CommandTooLongError))
    /\ [][(func \in Splitters /\ HasOutcome("CommandTooLong")) => calls' = calls]_vars

C5_Witness ==
    /\ func = "split_video_ffmpeg"
    /\ Len(scene_list) = 3
    /\ Len(outcomes) = 2
    /\ outcomes[2].kind = "CommandTooLong"
    /\ pc = "done"
    /\ CommandTooLongError \in ErrorRecords

\* C6: when an invocation of a splitter raises OSError (tool not found), the
\* splitter logs the install message of its own backend and no other error,
\* makes no further invocation and returns without raising.
C6_ToolNotFound ==
    /\ [](func \in Splitters =>
            \A k \in 1..Len(outcomes) :
                outcomes[k].kind = "OSError" =>
                    EndedByException(k, ToolNotFoundError(ProgOf(func))))
    /\ [][(func \in Splitters /\ HasOutcome("OSError")) => calls' = calls]_vars

C6_Witness ==
    /\ func = "split_video_mkvmerge"
    /\ Len(scene_list) = 2
    /\ Len(outcomes) = 1
    /\ outcomes[1].kind = "OSError"
    /\ pc = "done"
    /\ ToolNotFoundError("mkvmerge") \in ErrorRecords

UsageCodeOf(f) ==
    IF f = "is_mkvmerge_available" THEN MKVMERGE_USAGE_CODE ELSE FFMPEG_USAGE_CODE

\* C7 as stated: a probe reports available exactly when the executable was
\* launched and its exit code is anything other than the usage code (2 for
\* mkvmerge, 1 for ffmpeg).
C7_AvailableUnlessUsageCode ==
    (func \in Probes /\ pc = "done") =>
        (return_bool <=>
            (outcomes[1].kind = "exit" /\ outcomes[1].code # UsageCodeOf(func)))

\* C7 as amended: a probe reports available exactly when the executable was
\* launched and its exit code equals the usage code (2 for mkvmerge, 1 for
\* ffmpeg); any other exit code, and a missing executable, report unavailable.
C7_AvailableIffUsageCode ==
    (func \in Probes /\ pc = "done") =>
        /\ outcome = "bool"
        /\ return_bool <=>
              (outcomes[1].kind = "exit" /\ outcomes[1].code = UsageCodeOf(func))

C7_Witness ==
    /\ func = "is_mkvmerge_available"
    /\ pc = "done"
    /\ outcomes = << Exited(MKVMERGE_USAGE_CODE) >>
    /\ return_bool

\* C8: a probe never raises: whatever launching the executable did, it
\* returns a boolean, and a missing executable yields False.
C8_ProbeNeverRaises ==
    (func \in Probes /\ pc = "done") =>
        /\ outcome = "bool"
        /\ return_bool \in BOOLEAN
        /\ outcomes[1].kind = "OSError" => return_bool = FALSE

C8_Witness ==
    /\ func = "is_mkvmerge_available"
    /\ pc = "done"
    /\ outcomes = << Raised("OSError") >>
    /\ outcome = "bool"
    /\ return_bool = FALSE

\* C9: for a list of N scenes the width W of the rendered scene numbers is
\* at least 3 and at least the number of digits of N, every rendered scene
\* number has exactly W characters, and each sorts after the one before it.
C9_UniformWidth ==
    scene_number >= 1 =>
        LET W == SceneNumWidth(total_scenes)
        IN /\ W >= 3
           /\ W >= NumDigits(total_scenes)
           /\ Len(rendered) = W
           /\ scene_number >= 2 =>
                 (Len(rendered_prev) = W /\ LexLess(rendered_prev, rendered))

\* C10: the template split_video_mkvmerge hands to substitution contains no
\* '$SCENE_NUMBER', and '$VIDEO_NAME-$SCENE_NUMBER' and
\* '$VIDEO_NAME$SCENE_NUMBER' both reduce to '$VIDEO_NAME'.
C10_PlaceholderStripped ==
    (func = "split_video_mkvmerge" /\ outcome \in {"pending", "int"}) =>
        /\ ~Contains(output_file_template, DollarSceneNumber)
        /\ log[1].text \in { DollarVideoName \o HyphenDollarSceneNumber,
                             DollarVideoName \o DollarSceneNumber }
              => output_file_template = DollarVideoName

IsSpeedRecord(rec) == rec.msg = "Average processing speed %.2f frames/sec."

SpeedRecords == { m \in 1..Len(log) : IsSpeedRecord(log[m]) }

\* C11: split_video_ffmpeg logs the average speed at most once per call, and
\* only at the end of a call with an active progress indicator (library
\* present, hide_progress false) whose last invocation ran to an exit code;
\* the value is (last end frame - first start frame) / (time at loop end -
\* time at loop start); it is never logged after OSError or CommandTooLong.
C11_FfmpegThroughput ==
    func = "split_video_ffmpeg" =>
        /\ Cardinality(SpeedRecords) <= 1
        /\ \A m \in SpeedRecords :
              /\ tqdm /\ ~hide_progress
              /\ pc = "done"
              /\ Len(outcomes) >= 1
              /\ outcomes[Len(outcomes)].kind = "exit"
              /\ log[m].num = scene_list[Len(scene_list)][2] - scene_list[1][1]
              /\ log[m].per = now - processing_start_time
              /\ log[m].per > 0
        /\ (HasOutcome("OSError") \/ HasOutcome("CommandTooLong")) => SpeedRecords = {}

C11_Witness ==
    /\ func = "split_video_ffmpeg"
    /\ pc = "done"
    /\ Len(outcomes) = 3
    /\ \E m \in SpeedRecords : log[m].per = 5 /\ log[m].num = 4

\* C12: split_video_mkvmerge logs the average speed only when its one
\* invocation ran to exit code 0.
C12_MkvmergeThroughputOnSuccess ==
    (func = "split_video_mkvmerge" /\ SpeedRecords # {}) => outcomes = << Exited(0) >>

VerbosityFlags(flags) == { k \in 1..Len(flags) : flags[k] = "-v" }

\* The positions of the tokens of arg_override that are the option '-v'.
OverrideVerbosityFlags(tokens) == { k \in 1..Len(tokens) : tokens[k] = <<"-", "v">> }

\* The number of verbosity flags in an argument vector of split_video_ffmpeg.
VerbosityFlagCount(call) ==
    Cardinality(VerbosityFlags(call.flags))
        + Cardinality(OverrideVerbosityFlags(call.override))

\* The verbosity split_video_ffmpeg itself selects for the j-th invocation.
OwnVerbosity(j) ==
    IF suppress_output THEN <<"-v", "quiet">>
    ELSE IF j = 1 THEN << >>
    ELSE <<"-v", "error">>

\* C13 as stated: the invocation of split_video_ffmpeg for 0-based scene
\* index j - 1 carries '-v quiet' when suppress_output is true, otherwise no
\* verbosity flag for the first scene and '-v error' for every later one,
\* and no invocation carries more than one verbosity flag.
C13_VerbosityAsStated ==
    func = "split_video_ffmpeg" =>
        \A j \in 1..Len(calls) :
            /\ calls[j].flags = OwnVerbosity(j)
            /\ VerbosityFlagCount(calls[j]) = Len(OwnVerbosity(j)) \div 2
            /\ VerbosityFlagCount(calls[j]) <= 1

\* C13: the verbosity split_video_ffmpeg itself puts in the invocation for
\* 0-based scene index j - 1 is '-v quiet' when suppress_output is true,
\* otherwise none for the first scene and '-v error' for every later one,
\* never more than one flag; the tokens of arg_override follow unchanged, so
\* the invocation carries that flag plus every '-v' among those tokens, and
\* with no '-v' in arg_override no invocation carries more than one
\* verbosity flag.
C13_Verbosity ==
    func = "split_video_ffmpeg" =>
        \A j \in 1..Len(calls) :
            /\ calls[j].flags = OwnVerbosity(j)
            /\ Cardinality(VerbosityFlags(calls[j].flags)) <= 1
            /\ calls[j].override = arg_override
            /\ VerbosityFlagCount(calls[j]) =
                  Len(OwnVerbosity(j)) \div 2
                      + Cardinality(OverrideVerbosityFlags(arg_override))
            /\ OverrideVerbosityFlags(arg_override) = {} =>
                  VerbosityFlagCount(calls[j]) <= 1

C13_Witness ==
    /\ func = "split_video_ffmpeg"
    /\ ~suppress_output
    /\ Len(calls) = 3
    /\ Len(arg_override) = 2
    /\ OverrideVerbosityFlags(arg_override) = {}
    /\ calls[1].flags = << >>
    /\ VerbosityFlagCount(calls[1]) = 0
    /\ calls[3].flags = <<"-v", "error">>
    /\ VerbosityFlagCount(calls[3]) = 1

NoticeRecords ==
    { m \in 1..Len(log) : log[m].msg = "Output from ffmpeg for Scene 1 shown above" }

FirstInvocationReturned == Len(outcomes) >= 1 /\ outcomes[1].kind = "exit"

\* C14 as stated: with suppress_output false and any non-empty scene list
\* the notice is logged exactly once as soon as the first invocation has
\* returned, and not before; with suppress_output true it is never logged.
C14_NoticeForEveryList ==
    func = "split_video_ffmpeg" =>
        Cardinality(NoticeRecords) =
            (IF ~suppress_output /\ FirstInvocationReturned THEN 1 ELSE 0)

\* C14 as amended: with suppress_output false and a scene list of more than
\* one scene the notice is logged exactly once as soon as the first
\* invocation has returned, and not before; with suppress_output true, or
\* with a single scene, it is never logged.
C14_NoticeOnce ==
    func = "split_video_ffmpeg" =>
        Cardinality(NoticeRecords) =
            (IF ~suppress_output /\ Len(scene_list) > 1 /\ FirstInvocationReturned
             THEN 1 ELSE 0)

C14_Witness ==
    /\ func = "split_video_ffmpeg"
    /\ ~suppress_output
    /\ Len(scene_list) = 3
    /\ Len(outcomes) = 3
    /\ Cardinality(NoticeRecords) = 1
    /\ log[2].msg = "Output from ffmpeg for Scene 1 shown above"

SceneFrames(k) == scene_list[k][2] - scene_list[k][1]

RECURSIVE SumFrames(_)
SumFrames(S) ==
    IF S = {} THEN 0
    ELSE LET k == CHOOSE x \in S : TRUE IN SceneFrames(k) + SumFrames(S \ {k})

SucceededScenes == { k \in 1..Len(outcomes) : outcomes[k] = Exited(0) }

IsContiguous(scenes) == \A k \in 1..(Len(scenes) - 1) : scenes[k][2] = scenes[k + 1][1]

\* C15: while split_video_ffmpeg runs with a progress indicator, the
\* indicator's value is the sum of the frame durations of exactly the scenes
\* whose invocation returned 0; for a contiguous scene list it never exceeds
\* the declared total (last end frame - first start frame) and equals it
\* exactly when every scene succeeded.
C15_ProgressInvariant ==
    (func = "split_video_ffmpeg" /\ progress_bar.active) =>
        /\ progress_bar.n = SumFrames(SucceededScenes)
        /\ progress_bar.total = scene_list[Len(scene_list)][2] - scene_list[1][1]
        /\ IsContiguous(scene_list) =>
              /\ progress_bar.n <= progress_bar.total
              /\ (progress_bar.n = progress_bar.total)
                    <=> SucceededScenes = 1..Len(scene_list)

C15_Witness ==
    /\ func = "split_video_ffmpeg"
    /\ progress_bar.active
    /\ IsContiguous(scene_list)
    /\ Len(outcomes) = 3
    /\ outcomes[2] = Exited(0)
    /\ IsNonzeroExit(outcomes[3])
    /\ progress_bar.n = 3
    /\ progress_bar.total = 4

\* C16: with non-empty input and scene lists split_video_mkvmerge calls the
\* invoker exactly once, whatever the number of scenes or inputs: never more
\* than once, and once when the call has ended; when the child ran to an
\* exit code the function returns that code, and a nonzero code is logged as
\* an error and not raised.
C16_MkvmergeOneInvocation ==
    (func = "split_video_mkvmerge" /\ input_video_paths # << >> /\ scene_list # << >>) =>
        /\ Len(calls) = Len(outcomes)
        /\ Len(calls) = (IF pc = "done" THEN 1 ELSE 0)
        /\ \A j \in 1..Len(calls) :
              /\ calls[j].prog = "mkvmerge"
              /\ calls[j].inputs = input_video_paths
        /\ (outcomes # << >> /\ outcomes[1].kind = "exit") =>
              /\ pc = "done"
              /\ outcome = "int"
              /\ ret_val = outcomes[1].code
              /\ ErrorRecords =
                    (IF outcomes[1].code # 0
                     THEN { ReturnedError("mkvmerge", outcomes[1].code) }
                     ELSE {})

C16_Witness ==
    /\ func = "split_video_mkvmerge"
    /\ Len(input_video_paths) = 2
    /\ Len(scene_list) = 3
    /\ Len(calls) = 1
    /\ outcomes = << Exited(2) >>
    /\ outcome = "int"
    /\ ret_val = 2
    /\ ReturnedError("mkvmerge", 2) \in ErrorRecords

AllExitedZero == \A k \in 1..Len(outcomes) : outcomes[k] = Exited(0)

\* C17 (state part): the invocations made so far are those of scenes
\* 1, 2, ... in order, one each; every invocation but the last has exited
\* with 0; the loop is at scene i + 1 only when scenes 1..i have exited with
\* 0; a call that ended with every invocation exiting 0 has invoked every
\* scene and returns 0.
C17_InOrderState ==
    func = "split_video_ffmpeg" =>
        /\ Len(calls) = Len(outcomes)
        /\ Len(calls) <= Len(scene_list)
        /\ \A j \in 1..Len(calls) :
              /\ IsCallForScene(j)
              /\ j < Len(calls) => outcomes[j] = Exited(0)
        /\ pc = "loop" => (i = Len(calls) /\ AllExitedZero)
        /\ (pc = "done" /\ outcome = "int" /\ AllExitedZero) =>
              (Len(calls) = Len(scene_list) /\ ret_val = 0)

\* C17 (step part): a step adds at most one invocation and changes none.
C17_InOrderStep ==
    func' = "split_video_ffmpeg" =>
        /\ IsPrefix(calls, calls')
        /\ Len(calls') <= Len(calls) + 1

\* C17: split_video_ffmpeg never retries and keeps the order: every scene is
\* invoked at most once, in ascending order with none skipped, scene i + 1
\* only after scene i exited with 0, and a run in which every invocation
\* exits with 0 invokes every scene exactly once and returns 0.
C17_InOrderNoRetry == [](C17_InOrderState) /\ [][C17_InOrderStep]_vars

C17_Witness ==
    /\ func = "split_video_ffmpeg"
    /\ pc = "done"
    /\ Len(scene_list) = 3
    /\ Len(calls) = 3
    /\ AllExitedZero
    /\ ret_val = 0
    /\ outcome = "int"

\* C18: the 'parts' directive of split_video_mkvmerge has exactly one
\* start-end pair per scene, in scene-list order, and the k-th pair is the
\* k-th scene's own start and own end, contiguous scenes or not.
C18_PartsPerScene ==
    (func = "split_video_mkvmerge" /\ calls # << >>) =>
        /\ Len(calls[1].parts) = Len(scene_list)
        /\ \A k \in 1..Len(scene_list) :
              /\ calls[1].parts[k][1] = scene_list[k][1]
              /\ calls[1].parts[k][2] = scene_list[k][2]

C18_Witness ==
    /\ func = "split_video_mkvmerge"
    /\ Len(scene_list) = 3
    /\ ~IsContiguous(scene_list)
    /\ Len(calls) = 1
    /\ calls[1].parts = << <<0, 1>>, <<2, 3>>, <<3, 4>> >>

\* The arguments a logging record was formatted with name the number n.
RecordNamesNumber(rec, n) ==
    rec.num = n \/ (n >= 0 /\ Contains(rec.text, DecimalText(n)))

\* The arguments a logging record was formatted with name scene k: a text
\* argument holds the scene number, or the integer argument is the scene
\* number and not the exit code.
RecordNamesScene(rec, k, code) ==
    \/ Contains(rec.text, DecimalText(k))
    \/ (rec.num = k /\ rec.num # code)

\* C19: when the invocation for scene k of split_video_ffmpeg exits with a
\* nonzero code, an error is logged that names both the exit code and the
\* scene that failed.
C19_FailureNamesSceneAndCode ==
    func = "split_video_ffmpeg" =>
        \A k \in 1..Len(outcomes) :
            IsNonzeroExit(outcomes[k]) =>
                \E rec \in ErrorRecords :
                    /\ RecordNamesNumber(rec, outcomes[k].code)
                    /\ RecordNamesScene(rec, k, outcomes[k].code)

LastOutcomeIs(kind) ==
    outcome = "int" /\ outcomes # << >> /\ outcomes[Len(outcomes)].kind = kind

\* The terminal states of the splitters' state machine that describe the
\* current state.
TerminalStates ==
    { t \in { "NoOp", "Success", "BackendFailure", "ToolNotFound",
              "CommandTooLong", "UnsupportedConfiguration" } :
        \/ t = "NoOp" /\ outcome = "None"
        \/ t = "Success" /\ outcome = "int"
              /\ Len(outcomes) = RequiredInvocations /\ AllExitedZero
        \/ t = "BackendFailure" /\ LastOutcomeIs("exit")
              /\ IsNonzeroExit(outcomes[Len(outcomes)])
        \/ t = "ToolNotFound" /\ LastOutcomeIs("OSError")
        \/ t = "CommandTooLong" /\ LastOutcomeIs("CommandTooLong")
        \/ t = "UnsupportedConfiguration" /\ outcome = "NotImplementedError" }

\* C20 as stated (its claim about the end of a call): a splitter call that
\* has ended is in exactly one of NoOp, Success, BackendFailure,
\* ToolNotFound, CommandTooLong.
C20_FiveTerminalStates ==
    (func \in Splitters /\ pc = "done") =>
        /\ Cardinality(TerminalStates) = 1
        /\ TerminalStates \subseteq
              { "NoOp", "Success", "BackendFailure", "ToolNotFound", "CommandTooLong" }

C20_TerminalState ==
    func \in Splitters =>
        /\ Len(calls) <= RequiredInvocations
        /\ pc = "done" =>
              /\ Cardinality(TerminalStates) = 1
              /\ "UnsupportedConfiguration" \in TerminalStates <=>
                    (func = "split_video_ffmpeg" /\ Len(input_video_paths) > 1
                       /\ scene_list # << >>)

\* C20 as amended: with every child process exiting, every call of a
\* splitter ends, in exactly one of NoOp, Success, BackendFailure,
\* ToolNotFound, CommandTooLong or - for split_video_ffmpeg with several
\* inputs and a non-empty scene list, and only then - UnsupportedConfiguration,
\* after at most 1 (mkvmerge) or len(scene_list) (ffmpeg) invocations, and no
\* invocation is made once it has ended.
C20_Terminates ==
    /\ [](C20_TerminalState)
    /\ [][pc = "done" => (pc' = "done" /\ calls' = calls)]_vars
    /\ (func \in Splitters) ~> (pc = "done")

C20_Witness ==
    /\ func = "split_video_ffmpeg"
    /\ pc = "done"
    /\ Len(scene_list) = 3
    /\ Len(calls) = 3
    /\ TerminalStates = { "ToolNotFound" }

----------------------------------------------------------------------------
(* Output names of split_video_ffmpeg over many templates, lines 251-291 *)

BracedSceneNumber == <<"$", "{">> \o SCENE_NUMBER_KEY \o <<"}">>

\* Pieces of output templates: the two placeholders in their plain spelling,
\* the scene number in its braced spelling, a lone '$' (which escapes a
\* following '$'), a letter (which continues an identifier) and a hyphen.
NameFragments ==
    { DollarVideoName, DollarSceneNumber, BracedSceneNumber,
      <<"$">>, <<"x">>, <<"-">> }

MaxNameFragments == 2

RECURSIVE NameTexts(_)
NameTexts(n) ==
    IF n = 0 THEN { << >> }
    ELSE LET shorter == NameTexts(n - 1)
         IN shorter \cup { t \o f : t \in shorter, f \in NameFragments }

\* Templates made of at most MaxNameFragments fragments.
NameTemplates == NameTexts(MaxNameFragments)

\* Template(s).safe_substitute replaces at least one placeholder called
\* name: s holds '$name' or '${name}' where the '$' is not escaped by a '$'
\* before it and, in the plain spelling, no identifier character follows.
RECURSIVE Substitutes(_, _)
Substitutes(s, name) ==
    IF s = << >> THEN FALSE
    ELSE IF s[1] # "$" THEN Substitutes(Tail(s), name)
    ELSE IF Len(s) >= 2 /\ s[2] = "$" THEN Substitutes(Drop(s, 2), name)
    ELSE IF Len(s) >= 2 /\ IsIdStart(s[2])
      THEN LET n == IdRun(s, 2)
           IN SubSeq(s, 2, n + 1) = name \/ Substitutes(Drop(s, n + 1), name)
    ELSE IF Len(s) >= 4 /\ s[2] = "{" /\ IsIdStart(s[3])
            /\ IdRun(s, 3) + 3 <= Len(s) /\ s[IdRun(s, 3) + 3] = "}"
      THEN LET n == IdRun(s, 3)
           IN SubSeq(s, 3, n + 2) = name \/ Substitutes(Drop(s, n + 3), name)
    ELSE Substitutes(Tail(s), name)

\* split_video_ffmpeg on one input, over many templates and the scene lists
\* of 0..MaxScenes scenes of one frame each, the first starting at frame 0
\* and each starting where the previous one ends; the frame numbers and the
\* flags, which the output name does not depend on, are fixed.
InitNames ==
    /\ InitCall
    /\ InitNoRendering
    /\ input_video_paths = << 1 >>
    /\ scene_list \in { [k \in 1..n |-> <<k - 1, k>>] : n \in 0..MaxScenes }
    /\ output_file_template \in NameTemplates
    /\ suppress_output = TRUE
    /\ hide_progress = TRUE
    /\ tqdm = FALSE
    /\ arg_override = DefaultArgOverride

NextNames ==
    \/ split_video_ffmpeg
    \/ ffmpeg_scene

SpecNames == InitNames /\ [][NextNames]_vars

\* The j-th invocation was given the output name rendered with scene number j.
GivenSceneNumber(j) ==
    calls[j].out =
        SafeSubstitute(output_file_template,
            (VIDEO_NAME_KEY :> VideoName) @@
            (SCENE_NUMBER_KEY :> ZeroPad(j, SceneNumWidth(Len(scene_list)))))

OutputNamesDistinct ==
    \A a, b \in 1..Len(calls) : a # b => calls[a].out # calls[b].out

\* C21 as stated: in split_video_ffmpeg the invocation for 0-based scene
\* index i is given scene number i + 1, and whenever the text '$SCENE_NUMBER'
\* occurs in the output template the output names of the invocations of one
\* call are pairwise distinct.
C21_DistinctWhenTextOccurs ==
    func = "split_video_ffmpeg" =>
        /\ \A j \in 1..Len(calls) : GivenSceneNumber(j)
        /\ Contains(output_file_template, DollarSceneNumber) => OutputNamesDistinct

\* C21: in split_video_ffmpeg the invocation for 0-based scene index i is
\* given scene number i + 1, and whenever the output template holds a
\* SCENE_NUMBER placeholder that substitution replaces ('$SCENE_NUMBER' not
\* escaped by a preceding '$' and not continued by an identifier character,
\* or '${SCENE_NUMBER}') the output names of the invocations of one call are
\* pairwise distinct, so no invocation overwrites the output of an earlier
\* scene of the same call.
C21_DistinctNames ==
    func = "split_video_ffmpeg" =>
        /\ \A j \in 1..Len(calls) : GivenSceneNumber(j)
        /\ Substitutes(output_file_template, SCENE_NUMBER_KEY) => OutputNamesDistinct

\* A call that made every invocation of a list of several scenes with a
\* template whose scene-number placeholder is replaced although it is not
\* the whole template.
C21_Witness ==
    /\ func = "split_video_ffmpeg"
    /\ pc = "done"
    /\ Len(calls) >= 2
    /\ Len(calls) = Len(scene_list)
    /\ Substitutes(output_file_template, SCENE_NUMBER_KEY)
    /\ output_file_template # DollarSceneNumber
    /\ OutputNamesDistinct

----------------------------------------------------------------------------
(* Argument vectors of split_video_ffmpeg over many encoder overrides, *)
(* lines 247-250 and 266-290                                           *)

\* Words that values of arg_override are put together from: the verbosity
\* option and a level, another option, the empty word (two spaces in a
\* row) and a word in escaped quotes.
OverrideWords ==
    { <<"-", "v">>, <<"d", "e", "b", "u", "g">>, <<"-", "a", "n">>, << >>,
      <<"\\", "\"", "x", "\\", "\"">> }

MaxOverrideWords == 2

RECURSIVE OverrideTexts(_)
OverrideTexts(n) ==
    IF n <= 1 THEN OverrideWords
    ELSE LET shorter == OverrideTexts(n - 1)
         IN shorter \cup { t \o <<" ">> \o w : t \in shorter, w \in OverrideWords }

\* The default and the texts of at most MaxOverrideWords words with single
\* spaces between them.
ArgOverrides == OverrideTexts(MaxOverrideWords) \cup { DefaultArgOverride }

\* split_video_ffmpeg on one input, over many values of arg_override, both
\* values of suppress_output and the scene lists of 0..MaxScenes scenes of
\* one frame each; the template and the progress display, which the
\* argument vector's options do not depend on, are fixed.
InitArgs ==
    /\ InitCall
    /\ InitNoRendering
    /\ input_video_paths = << 1 >>
    /\ scene_list \in { [k \in 1..n |-> <<k - 1, k>>] : n \in 0..MaxScenes }
    /\ output_file_template = DollarVideoName \o HyphenDollarSceneNumber
    /\ suppress_output \in BOOLEAN
    /\ hide_progress = TRUE
    /\ tqdm = TRUE
    /\ arg_override \in ArgOverrides

NextArgs ==
    \/ split_video_ffmpeg
    \/ ffmpeg_scene

SpecArgs == InitArgs /\ [][NextArgs]_vars

====
